---- MODULE Spec2Model ----
(***************************************************************************)
(* A model of the Twitter airline topic-modelling pipeline: the loader,    *)
(* the mention extractor and its alias canonicalisation, the volume        *)
(* filter, the single-corpus and per-group topic modelers, the report      *)
(* renderer and the orchestration in main.                                 *)
(*                                                                         *)
(* Python strings are sequences of one-character strings, so that          *)
(* substring tests, lower-casing, split, strip, join and sorted are        *)
(* computed the way the code computes them.  An optional value (None or a  *)
(* string) is a record [some |-> BOOLEAN, val |-> string].                 *)
(***************************************************************************)
EXTENDS Integers, Sequences, FiniteSets, TLC

VARIABLES
    \* --- the mention extractor applied to one record (process_airline_mentions)
    raw_text,            \* the record's text: an optional string
    airlines_mentioned,  \* the record's airlines_mentioned cell
    merged_once,         \* the cell as it was after the first canonicalisation
    stage                \* "input", "extracted", "merged", "merged_twice"

labelVars == << raw_text, airlines_mentioned, merged_once, stage >>

VARIABLES
    \* --- one call of clean_text
    ct_arg,              \* the argument as passed: an optional string (None: not a string)
    ct_text,             \* the local text, reassigned by every substitution
    ct_tokens,           \* the local list tokens
    ct_return,           \* the returned string
    ct_pc                \* "called", "normalized", "tokenized", "filtered",
                         \* "returned", "raised"

cleanVars == << ct_arg, ct_text, ct_tokens, ct_return, ct_pc >>

unitVars == << labelVars, cleanVars >>

VARIABLES
    \* --- one run of main
    pc,                  \* the position of the run
    file,                \* the input spreadsheet at args.input_file
    args,                \* the parsed command line: min_mentions, save_processed
    nltk_ok,             \* whether the NLTK corpora are available after setup_nltk
    df,                  \* load_data's return value: an optional table
    load_error,          \* the exception load_data raised to main, "none" if it returned
    df_processed,        \* preprocess_data's return value
    texts,               \* df_processed['clean_text'].tolist()
    timestamps,          \* the tweet_created column handed to the modeler, if any
    overall_topic_model, \* the model perform_topic_modeling returned for the corpus
    overall_topics,      \* its topic assignments: an optional list
    topics_over_time_df, \* "None", "empty" or "table"
    prefix,              \* the prefix of the visualize_all_topics call in progress
    min_group_size,      \* perform_topic_modeling_per_group's parameter
    unique_groups,       \* the group labels its loop has still to visit
    grouped_models,      \* the dict it builds, in insertion order
    viz_queue,           \* the items visualize_grouped_topics has still to visit
    fit_calls,           \* every call of perform_topic_modeling so far
    tot_calls,           \* calls of the external topics_over_time so far
    attempted,           \* <<prefix, artifact>> for every chart whose generation began
    failed,              \* the number of charts that logged a failure and produced no file
    snapshot,            \* "absent", "written" or "failed"
    log                  \* the warnings and errors logged so far

mainVars ==
    << pc, file, args, nltk_ok, df, load_error, df_processed, texts, timestamps,
       overall_topic_model, overall_topics, topics_over_time_df, prefix,
       min_group_size, unique_groups, grouped_models, viz_queue, fit_calls,
       tot_calls, attempted, failed, snapshot, log >>

\* ------------------------------------------------------------------------
\* Python string primitives
\* ------------------------------------------------------------------------

\* The characters the model uses, in ascending code-point order.
Ascii ==
    << " ", "!", "#", ",", ".", "/", "1", "2", ":", "@",
       "A", "B", "C", "D", "E", "F", "G", "H", "I", "J", "K", "L", "M",
       "N", "O", "P", "Q", "R", "S", "T", "U", "V", "W", "X", "Y", "Z",
       "a", "b", "c", "d", "e", "f", "g", "h", "i", "j", "k", "l", "m",
       "n", "o", "p", "q", "r", "s", "t", "u", "v", "w", "x", "y", "z" >>

UpperCase ==
    << "A", "B", "C", "D", "E", "F", "G", "H", "I", "J", "K", "L", "M",
       "N", "O", "P", "Q", "R", "S", "T", "U", "V", "W", "X", "Y", "Z" >>

LowerCase ==
    << "a", "b", "c", "d", "e", "f", "g", "h", "i", "j", "k", "l", "m",
       "n", "o", "p", "q", "r", "s", "t", "u", "v", "w", "x", "y", "z" >>

\* A Python list built by a comprehension: its elements are computed once.
List(f) == f \o <<>>

\* ord(c): the position of a character in code-point order.
Ord(c) == CHOOSE i \in 1..Len(Ascii) : Ascii[i] = c

\* str.lower() on one character.
LowerChar(c) ==
    IF \E i \in 1..Len(UpperCase) : UpperCase[i] = c
    THEN LowerCase[CHOOSE i \in 1..Len(UpperCase) : UpperCase[i] = c]
    ELSE c

\* str.lower()
Lower(s) == List([i \in 1..Len(s) |-> LowerChar(s[i])])

\* a in s  (substring test)
IsSubstring(a, s) ==
    \E i \in 0..(Len(s) - Len(a)) : SubSeq(s, i + 1, i + Len(a)) = a

\* a < b for Python strings: lexicographic by code point.
RECURSIVE StrLess(_, _)
StrLess(a, b) ==
    IF b = <<>> THEN FALSE
    ELSE IF a = <<>> THEN TRUE
    ELSE IF a[1] # b[1] THEN Ord(a[1]) < Ord(b[1])
    ELSE StrLess(Tail(a), Tail(b))

\* str.isspace() on one character.
IsSpace(c) == c = " "

\* str.strip()
RECURSIVE Strip(_)
Strip(s) ==
    IF s = <<>> THEN s
    ELSE IF IsSpace(s[1]) THEN Strip(Tail(s))
    ELSE IF IsSpace(s[Len(s)]) THEN Strip(SubSeq(s, 1, Len(s) - 1))
    ELSE s

\* str.split(sep) for a one-character separator: always at least one field.
RECURSIVE SplitFrom(_, _, _)
SplitFrom(s, sep, cur) ==
    IF s = <<>> THEN << cur >>
    ELSE IF s[1] = sep THEN << cur >> \o SplitFrom(Tail(s), sep, <<>>)
    ELSE SplitFrom(Tail(s), sep, Append(cur, s[1]))

Split(s, sep) == SplitFrom(s, sep, <<>>)

\* sep.join(parts)
RECURSIVE Join(_, _)
Join(sep, parts) ==
    IF parts = <<>> THEN <<>>
    ELSE IF Len(parts) = 1 THEN parts[1]
    ELSE parts[1] \o sep \o Join(sep, Tail(parts))

\* set(list)
ToSet(l) == { l[i] : i \in 1..Len(l) }

\* sorted(set_of_strings)
RECURSIVE Sorted(_)
Sorted(S) ==
    IF S = {} THEN <<>>
    ELSE LET m == CHOOSE x \in S : \A y \in S \ {x} : StrLess(x, y)
         IN  << m >> \o Sorted(S \ {m})

\* Optional values.
None == [some |-> FALSE, val |-> <<>>]
Some(s) == [some |-> TRUE, val |-> s]

\* ------------------------------------------------------------------------
\* utils.AIRLINES and the mention extractor
\* ------------------------------------------------------------------------

southwestair == << "s","o","u","t","h","w","e","s","t","a","i","r" >>
united == << "u","n","i","t","e","d" >>
jetblue == << "j","e","t","b","l","u","e" >>
americanair == << "a","m","e","r","i","c","a","n","a","i","r" >>
usairways == << "u","s","a","i","r","w","a","y","s" >>
virginamerica == << "v","i","r","g","i","n","a","m","e","r","i","c","a" >>

AIRLINES == << southwestair, united, jetblue, americanair, usairways, virginamerica >>

CommaSpace == << ",", " " >>

\* [x for x in l if P(x)] for the membership test of extract_airlines.
RECURSIVE FoundAirlines(_, _)
FoundAirlines(airlines, text_lower) ==
    IF airlines = <<>> THEN <<>>
    ELSE (IF IsSubstring(airlines[1], text_lower) THEN << airlines[1] >> ELSE <<>>)
         \o FoundAirlines(Tail(airlines), text_lower)

\* extract_airlines(text) for a string argument (an Optional with some = TRUE);
\* a non-string argument yields None.
extract_airlines(text) ==
    IF ~text.some THEN None
    ELSE LET text_lower == Lower(text.val)
             found_airlines == FoundAirlines(AIRLINES, text_lower)
         IN  IF found_airlines # <<>> THEN Some(Join(CommaSpace, found_airlines))
             ELSE None

\* the alias replacement with the two identifiers swapped
ReplaceAliasSwapped(air) == IF air = usairways THEN americanair ELSE air

\* the alias replacement of merge_usairways_american
ReplaceAlias(air) == IF air = americanair THEN usairways ELSE air

\* merge_usairways_american without the strip() of the split fields
merge_without_strip(value) ==
    IF ~value.some THEN value
    ELSE LET airlines_list == Split(value.val, ",")
             replaced == List([i \in 1..Len(airlines_list) |-> ReplaceAlias(airlines_list[i])])
         IN  Some(Join(CommaSpace, Sorted(ToSet(replaced))))

merge_usairways_american(value) ==
    IF ~value.some THEN value
    ELSE LET parts == Split(value.val, ",")
             airlines_list == List([i \in 1..Len(parts) |-> Strip(parts[i])])
             replaced == List([i \in 1..Len(airlines_list) |-> ReplaceAlias(airlines_list[i])])
             merged_airlines == Sorted(ToSet(replaced))
         IN  Some(Join(CommaSpace, merged_airlines))

\* ------------------------------------------------------------------------
\* The text normaliser (preprocessing.clean_text)
\* ------------------------------------------------------------------------

Digits == { "1", "2" }

\* string.punctuation, as far as the model's characters go
Punctuation == { "!", "#", ",", ".", "/", ":", "@", "_" }

\* \w : letters, digits and the underscore
IsWordChar(c) ==
    \/ \E i \in 1..Len(LowerCase) : LowerCase[i] = c \/ UpperCase[i] = c
    \/ c \in Digits
    \/ c = "_"

\* the length of the longest prefix of s made of \w characters
RECURSIVE WordRun(_)
WordRun(s) == IF s = <<>> \/ ~IsWordChar(s[1]) THEN 0 ELSE 1 + WordRun(Tail(s))

\* the length of the longest prefix of s made of \S characters
RECURSIVE NonSpaceRun(_)
NonSpaceRun(s) == IF s = <<>> \/ IsSpace(s[1]) THEN 0 ELSE 1 + NonSpaceRun(Tail(s))

Drop(s, n) == SubSeq(s, n + 1, Len(s))

StartsWith(s, head) == Len(s) >= Len(head) /\ SubSeq(s, 1, Len(head)) = head

\* re.sub(r'@\w+', '', text)
RECURSIVE RemoveMentions(_)
RemoveMentions(s) ==
    IF s = <<>> THEN s
    ELSE IF s[1] = "@" /\ WordRun(Tail(s)) > 0
         THEN RemoveMentions(Drop(s, 1 + WordRun(Tail(s))))
         ELSE << s[1] >> \o RemoveMentions(Tail(s))

http == << "h", "t", "t", "p" >>
www == << "w", "w", "w" >>

\* re.sub(r'http\S+|www\S+', '', text)
RECURSIVE RemoveUrls(_)
RemoveUrls(s) ==
    IF s = <<>> THEN s
    ELSE IF StartsWith(s, http) /\ NonSpaceRun(Drop(s, 4)) > 0
         THEN RemoveUrls(Drop(s, 4 + NonSpaceRun(Drop(s, 4))))
    ELSE IF StartsWith(s, www) /\ NonSpaceRun(Drop(s, 3)) > 0
         THEN RemoveUrls(Drop(s, 3 + NonSpaceRun(Drop(s, 3))))
    ELSE << s[1] >> \o RemoveUrls(Tail(s))

\* re.sub('[punctuation]', ' ', text)
ReplacePunctuation(s) ==
    List([i \in 1..Len(s) |-> IF s[i] \in Punctuation THEN " " ELSE s[i]])

\* re.sub(r'\d+', '', text)
RemoveDigits(s) == SelectSeq(s, LAMBDA c : c \notin Digits)

\* nltk word_tokenize on text that holds letters and blanks only: the maximal
\* runs of non-blank characters.
RECURSIVE word_tokenize(_)
word_tokenize(s) ==
    IF s = <<>> THEN <<>>
    ELSE IF IsSpace(s[1]) THEN word_tokenize(Tail(s))
    ELSE LET n == NonSpaceRun(s)
         IN  << SubSeq(s, 1, n) >> \o word_tokenize(Drop(s, n))

\* a few of nltk's English stopwords
stop_words ==
    { << "a" >>, << "i" >>, << "t", "h", "e" >>, << "w", "a", "s" >>,
      << "a", "l", "l" >>, << "a", "n", "d" >> }

\* WordNetLemmatizer.lemmatize with the default (noun) part of speech, on the
\* words of the model's texts: a plural loses its final "s".
lemmatize(word) ==
    IF Len(word) > 3 /\ word[Len(word)] = "s" /\ word[Len(word) - 1] # "s"
    THEN SubSeq(word, 1, Len(word) - 1)
    ELSE word

Blank == << " " >>

clean_text(text) ==
    IF ~text.some THEN <<>>
    ELSE LET lowered == Lower(text.val)
             no_mentions == RemoveMentions(lowered)
             no_urls == RemoveUrls(no_mentions)
             no_punct == ReplacePunctuation(no_urls)
             no_digits == RemoveDigits(no_punct)
             tokens == word_tokenize(no_digits)
             kept == SelectSeq(tokens, LAMBDA w : w \notin stop_words /\ Len(w) > 1)
             lemmas == List([i \in 1..Len(kept) |-> lemmatize(kept[i])])
         IN  Join(Blank, lemmas)

CleanIdle ==
    /\ ct_arg = None
    /\ ct_text = None
    /\ ct_tokens = <<>>
    /\ ct_return = <<>>
    /\ ct_pc = "idle"

\* ------------------------------------------------------------------------
\* data_loader.load_data
\* ------------------------------------------------------------------------

NoTable == [some |-> FALSE, rows |-> <<>>, tweet_created |-> "absent"]

nan == << "n", "a", "n" >>

\* Series.astype(str) on one cell: a string stays, a missing cell becomes 'nan'.
astype_str(cell) == IF cell.some THEN cell.val ELSE nan

\* load_data without the test for the text column
load_data_unchecked(f) ==
    IF ~f.exists
    THEN [ret |-> NoTable, raises |-> "none", log |-> { "File not found" }]
    ELSE IF ~f.parses
    THEN [ret |-> NoTable, raises |-> "none", log |-> { "Error loading data" }]
    ELSE [ret |-> [some |-> TRUE,
                   rows |-> List([i \in 1..Len(f.rows) |->
                                     [text |-> astype_str(f.rows[i]),
                                      airlines_mentioned |-> None]]),
                   tweet_created |-> f.tweet_created],
          raises |-> "none",
          log |-> {}]

\* load_data(file_path): the returned value, the exception raised to the caller
\* ("none": every failure is caught or tested for, and None is returned) and
\* the error logged.
load_data(f) ==
    IF ~f.exists
    THEN [ret |-> NoTable, raises |-> "none", log |-> { "File not found" }]
    ELSE IF ~f.parses
    THEN [ret |-> NoTable, raises |-> "none", log |-> { "Error loading data" }]
    ELSE IF ~f.has_text
    THEN [ret |-> NoTable, raises |-> "none", log |-> { "'text' column not found" }]
    ELSE [ret |-> [some |-> TRUE,
                   rows |-> List([i \in 1..Len(f.rows) |->
                                     [text |-> astype_str(f.rows[i]),
                                      airlines_mentioned |-> None]]),
                   tweet_created |-> f.tweet_created],
          raises |-> "none",
          log |-> {}]

\* ------------------------------------------------------------------------
\* preprocessing: process_airline_mentions, filter_by_airline_mentions,
\* add_cleaned_text, preprocess_data
\* ------------------------------------------------------------------------

process_airline_mentions(rows) ==
    List([i \in 1..Len(rows) |->
             [text |-> rows[i].text,
              airlines_mentioned |->
                  merge_usairways_american(extract_airlines(Some(rows[i].text)))]])

\* Series.value_counts(): the count of every distinct non-null value.
value_counts(rows) ==
    [l \in { rows[i].airlines_mentioned.val :
                i \in { j \in 1..Len(rows) : rows[j].airlines_mentioned.some } } |->
        Cardinality({ i \in 1..Len(rows) : rows[i].airlines_mentioned = Some(l) })]

\* the threshold test made exclusive
top_airlines_exclusive(rows, min_mention_count) ==
    LET counts == value_counts(rows)
    IN  { l \in DOMAIN counts : counts[l] > min_mention_count }

\* value_counts[value_counts >= min_mention_count].index
top_airlines(rows, min_mention_count) ==
    LET counts == value_counts(rows)
    IN  { l \in DOMAIN counts : counts[l] >= min_mention_count }

filter_by_airline_mentions(rows, min_mention_count) ==
    LET top == { Some(l) : l \in top_airlines(rows, min_mention_count) }
    IN  SelectSeq(rows, LAMBDA r : r.airlines_mentioned \in top)

add_cleaned_text(rows) ==
    List([i \in 1..Len(rows) |->
             [text |-> rows[i].text,
              airlines_mentioned |-> rows[i].airlines_mentioned,
              clean_text |-> clean_text(Some(rows[i].text))]])

is_datetime64_any_dtype(column) == column \in { "datetime", "NaT" }

\* the tweet_created column after preprocess_data: converted when it is there
\* and not yet of a datetime type, set to NaT when the conversion fails.
convert_tweet_created(column) ==
    IF column # "absent" /\ ~is_datetime64_any_dtype(column)
    THEN IF column = "convertible" THEN "datetime" ELSE "NaT"
    ELSE column

\* the warning preprocess_data logs when pd.to_datetime fails
ConversionLog(column) ==
    IF column = "unconvertible"
    THEN { "Could not convert 'tweet_created' to datetime" }
    ELSE {}

preprocess_data(table, min_mention_count) ==
    [rows |-> add_cleaned_text(
                  filter_by_airline_mentions(
                      process_airline_mentions(table.rows), min_mention_count)),
     tweet_created |-> convert_tweet_created(table.tweet_created)]

\* ------------------------------------------------------------------------
\* topic_modeling
\* ------------------------------------------------------------------------

\* BERTopic needs this many documents (topic_modeling.perform_topic_modeling).
MinDocs == 5

\* BERTopic(): a model whose topics_ is None.
Unfitted == [fitted |-> FALSE]
Fitted == [fitted |-> TRUE]

\* perform_topic_modeling testing only `not texts`
perform_topic_modeling_no_minimum(docs, ext) ==
    IF docs = <<>>
    THEN [model |-> Unfitted, topics |-> None, probs |-> None,
          ext |-> "not_called", log |-> { "Not enough documents" }]
    ELSE IF ext = "raise"
    THEN [model |-> Unfitted, topics |-> None, probs |-> None,
          ext |-> "raise", log |-> { "Error during topic modeling" }]
    ELSE [model |-> Fitted,
          topics |-> Some(List([i \in 1..Len(docs) |-> 0])),
          probs |-> Some(List([i \in 1..Len(docs) |-> 1])),
          ext |-> "ok", log |-> {}]

\* perform_topic_modeling(texts).  ext is what the external fit_transform does
\* if it is called: "ok" or "raise".  The field ext of the result tells what
\* it did in this call, "not_called" when the call never reached it.
perform_topic_modeling(docs, ext) ==
    IF docs = <<>> \/ Len(docs) < MinDocs
    THEN [model |-> Unfitted, topics |-> None, probs |-> None,
          ext |-> "not_called", log |-> { "Not enough documents" }]
    ELSE IF ext = "raise"
    THEN [model |-> Unfitted, topics |-> None, probs |-> None,
          ext |-> "raise", log |-> { "Error during topic modeling" }]
    ELSE [model |-> Fitted,
          topics |-> Some(List([i \in 1..Len(docs) |-> 0])),
          probs |-> Some(List([i \in 1..Len(docs) |-> 1])),
          ext |-> "ok", log |-> {}]

\* The record kept of one call of perform_topic_modeling: for whom, on which
\* documents, what the external fit did and the triple returned.
FitCall(who, docs, r) ==
    [who |-> who, docs |-> docs, ext |-> r.ext,
     model |-> r.model, topics |-> r.topics, probs |-> r.probs]

\* A missing timestamps argument.
NoTimestamps == [some |-> FALSE, dtype |-> "absent", len |-> 0]

\* get_topics_over_time without the test of the lengths
get_topics_over_time_any_length(docs, ts, topics, ext) ==
    IF docs = <<>> \/ ~ts.some \/ ~topics.some
    THEN [ret |-> "None", ext_tot |-> FALSE, log |-> { "Missing required data" }]
    ELSE IF ~(ts.dtype \in { "datetime", "NaT" })
    THEN [ret |-> "None", ext_tot |-> FALSE, log |-> { "timestamps not datetime" }]
    ELSE IF ext = "raise"
    THEN [ret |-> "None", ext_tot |-> TRUE, log |-> { "Error calculating topics over time" }]
    ELSE [ret |-> ext, ext_tot |-> TRUE, log |-> {}]

\* get_topics_over_time(topic_model, texts, timestamps, topics).  ts is an
\* optional column [dtype, len]; ext is what the external topics_over_time
\* does when it is called: "table", "empty" or "raise".
get_topics_over_time(docs, ts, topics, ext) ==
    IF docs = <<>> \/ ~ts.some \/ ~topics.some
    THEN [ret |-> "None", ext_tot |-> FALSE, log |-> { "Missing required data" }]
    ELSE IF ~is_datetime64_any_dtype(ts.dtype)
    THEN [ret |-> "None", ext_tot |-> FALSE, log |-> { "timestamps not datetime" }]
    ELSE IF Len(docs) # ts.len \/ Len(docs) # Len(topics.val)
    THEN [ret |-> "None", ext_tot |-> FALSE, log |-> { "must have the same length" }]
    ELSE IF ext = "raise"
    THEN [ret |-> "None", ext_tot |-> TRUE, log |-> { "Error calculating topics over time" }]
    ELSE [ret |-> ext, ext_tot |-> TRUE, log |-> {}]

\* Series.unique(): the distinct values in order of first appearance, null included.
Unique(l) ==
    LET firsts == SelectSeq(List([i \in 1..Len(l) |->
                                    [value |-> l[i],
                                     first |-> \A j \in 1..(i - 1) : l[j] # l[i]]]),
                            LAMBDA e : e.first)
    IN  List([i \in 1..Len(firsts) |-> firsts[i].value])

GroupLabels(rows) == Unique(List([i \in 1..Len(rows) |-> rows[i].airlines_mentioned]))

\* the selection of the group's rows left out: df[text_column].tolist()
GroupTextsUnselected(rows, group_name) ==
    List([i \in 1..Len(rows) |-> rows[i].clean_text])

\* df[df[group_column] == group_name][text_column].tolist()
GroupTexts(rows, group_name) ==
    LET members == SelectSeq(rows, LAMBDA r : r.airlines_mentioned = group_name)
    IN  List([i \in 1..Len(members) |-> members[i].clean_text])

\* ------------------------------------------------------------------------
\* visualization
\* ------------------------------------------------------------------------

\* What the plotting library and the file system do during one plot_* call:
\* render is the visualize_* call (for the hierarchy chart it stands for the
\* hierarchical_topics call too, and may fail with an AttributeError), show is
\* fig.show(), save is what save_plot meets.
ExtPlot ==
    [render : { "ok", "raise", "attribute_error" },
     show : { "ok", "raise" },
     save : { "saved", "html_fallback", "write_raises", "makedirs_raises", "unsavable" }]

\* save_plot(fig, filename, output_dir): "raise" when os.makedirs fails (it is
\* outside the try), otherwise what became of the file.
save_plot(ext) ==
    CASE ext.save = "makedirs_raises" -> "raise"
      [] ext.save = "saved"           -> "saved"
      [] ext.save = "html_fallback"   -> "saved_html"
      [] ext.save = "write_raises"    -> "save_error_logged"
      [] ext.save = "unsavable"       -> "cannot_save_logged"

\* The body of plot_topic_barchart, plot_topic_hierarchy, plot_topic_heatmap and
\* of plot_topics_over_time past its guard: every exception of the try block is
\* caught and logged.
plot_chart(ext) ==
    IF ext.render = "raise" THEN "error_logged"
    ELSE IF ext.render = "attribute_error" THEN "warning_logged"
    ELSE IF ext.show = "raise" THEN "error_logged"
    ELSE IF save_plot(ext) = "raise" THEN "error_logged"
    ELSE save_plot(ext)

Produced == { "saved", "saved_html" }

overall == << "o", "v", "e", "r", "a", "l", "l" >>

\* Every way one plot_* call can end, over all behaviours of the library.
PlotOutcomes == { plot_chart(ext) : ext \in ExtPlot }

\* One plot_* call for the chart `kind` of the model named by `name`.
Plot(name, kind) ==
    \E outcome \in PlotOutcomes :
        /\ attempted' = attempted \cup { << name, kind >> }
        /\ failed' = IF outcome \in Produced THEN failed ELSE failed + 1

vizUnchanged ==
    << file, args, nltk_ok, df, load_error, df_processed, texts, timestamps,
       overall_topic_model, overall_topics, topics_over_time_df, prefix,
       min_group_size, unique_groups, grouped_models, viz_queue, fit_calls,
       tot_calls, snapshot, log, unitVars >>

\* plot_topic_barchart without its try/except: a failure ends the run
PlotTopicBarchartUnguarded ==
    /\ pc = "viz_bar"
    /\ \E outcome \in PlotOutcomes :
           /\ attempted' = attempted \cup { << prefix, "barchart" >> }
           /\ failed' = IF outcome \in Produced THEN failed ELSE failed + 1
           /\ pc' = IF outcome \in Produced THEN "viz_hier" ELSE "raised"
    /\ UNCHANGED vizUnchanged

\* visualize_all_topics, first call: plot_topic_barchart
PlotTopicBarchart ==
    /\ pc = "viz_bar"
    /\ Plot(prefix, "barchart")
    /\ pc' = "viz_hier"
    /\ UNCHANGED vizUnchanged

\* visualize_all_topics, second call: plot_topic_hierarchy
PlotTopicHierarchy ==
    /\ pc = "viz_hier"
    /\ Plot(prefix, "hierarchy")
    /\ pc' = "viz_heat"
    /\ UNCHANGED vizUnchanged

\* visualize_all_topics, third call: plot_topic_heatmap
PlotTopicHeatmap ==
    /\ pc = "viz_heat"
    /\ Plot(prefix, "heatmap")
    /\ pc' = "viz_time"
    /\ UNCHANGED vizUnchanged

\* visualize_all_topics, the guarded fourth call: plot_topics_over_time, which
\* itself returns at once on a null or empty table.
PlotTopicsOverTime ==
    /\ pc = "viz_time"
    /\ IF topics_over_time_df = "table"
       THEN Plot(prefix, "topics_over_time")
       ELSE UNCHANGED << attempted, failed >>
    /\ log' = IF topics_over_time_df = "empty"
              THEN log \cup { "No topics over time data to plot" }
              ELSE log
    /\ pc' = "viz_done"
    /\ UNCHANGED << file, args, nltk_ok, df, load_error, df_processed, texts,
                    timestamps, overall_topic_model, overall_topics,
                    topics_over_time_df, prefix, min_group_size, unique_groups,
                    grouped_models, viz_queue, fit_calls, tot_calls, snapshot >>
    /\ UNCHANGED unitVars

\* ------------------------------------------------------------------------
\* perform_topic_modeling_per_group: the loop over unique_groups
\* ------------------------------------------------------------------------

\* the size test made exclusive
GroupQualifiesExclusive(group_texts, minimum) == Len(group_texts) > minimum

\* `if len(group_texts) >= min_group_size`
GroupQualifies(group_texts, minimum) == Len(group_texts) >= minimum

\* One iteration of `for group_name in unique_groups`.
GroupStep ==
    /\ pc = "group_loop"
    /\ unique_groups # <<>>
    /\ LET group_name == Head(unique_groups)
           group_texts == GroupTexts(df_processed.rows, group_name)
       IN  IF ~group_name.some
           THEN UNCHANGED << grouped_models, fit_calls, log >>
           ELSE IF GroupQualifies(group_texts, min_group_size)
           THEN \E ext \in { "ok", "raise" } :
                    LET r == perform_topic_modeling(group_texts, ext)
                    IN  /\ fit_calls' = Append(fit_calls,
                                               FitCall(group_name.val, group_texts, r))
                        /\ IF r.model.fitted
                           THEN /\ grouped_models' =
                                       Append(grouped_models,
                                              [key |-> group_name.val, model |-> r.model])
                                /\ log' = log \cup r.log
                           ELSE /\ grouped_models' = grouped_models
                                /\ log' = log \cup r.log
                                              \cup { "Topic modeling failed for group" }
           ELSE /\ log' = log \cup { "Skipping group" }
                /\ UNCHANGED << grouped_models, fit_calls >>
    /\ unique_groups' = Tail(unique_groups)
    /\ UNCHANGED << pc, file, args, nltk_ok, df, load_error, df_processed, texts,
                    timestamps, overall_topic_model, overall_topics,
                    topics_over_time_df, prefix, min_group_size, viz_queue,
                    tot_calls, attempted, failed, snapshot >>
    /\ UNCHANGED unitVars

\* The loop is over: return grouped_models.
GroupReturn ==
    /\ pc = "group_loop"
    /\ unique_groups = <<>>
    /\ pc' = "group_done"
    /\ UNCHANGED << file, args, nltk_ok, df, load_error, df_processed, texts,
                    timestamps, overall_topic_model, overall_topics,
                    topics_over_time_df, prefix, min_group_size, unique_groups,
                    grouped_models, viz_queue, fit_calls, tot_calls, attempted,
                    failed, snapshot, log >>
    /\ UNCHANGED unitVars

\* ------------------------------------------------------------------------
\* main
\* ------------------------------------------------------------------------

\* setup_nltk() and load_data(args.input_file); return when it gave None.
Load ==
    /\ pc = "start"
    /\ LET r == load_data(file)
       IN  /\ df' = r.ret
           /\ load_error' = r.raises
           /\ IF r.ret.some
              THEN /\ pc' = "loaded"
                   /\ log' = log \cup r.log
              ELSE /\ pc' = "done"
                   /\ log' = log \cup r.log \cup { "Failed to load data. Exiting." }
    /\ UNCHANGED << file, args, nltk_ok, df_processed, texts, timestamps,
                    overall_topic_model, overall_topics, topics_over_time_df,
                    prefix, min_group_size, unique_groups, grouped_models,
                    viz_queue, fit_calls, tot_calls, attempted, failed, snapshot >>
    /\ UNCHANGED unitVars

\* the early return on an empty table left out
AfterPreprocessNoReturn(result) == "preprocessed"

\* `if df_processed.empty: return`
AfterPreprocess(result) == IF result.rows = <<>> THEN "done" ELSE "preprocessed"

\* preprocess_data(df, min_mention_count=args.min_mentions), the test for an
\* empty result, and the extraction of texts and timestamps.  The mention
\* column is added to df in place.  add_cleaned_text initialises the NLTK
\* resources, which raises a LookupError when the corpora are missing.
Preprocess ==
    /\ pc = "loaded"
    /\ df' = [df EXCEPT !.rows = process_airline_mentions(df.rows)]
    /\ IF ~nltk_ok
       THEN /\ pc' = "raised"
            /\ UNCHANGED << df_processed, texts, timestamps, log >>
       ELSE LET result == preprocess_data(df, args.min_mentions)
            IN  /\ df_processed' = result
                /\ pc' = AfterPreprocess(result)
                /\ IF AfterPreprocess(result) = "done"
                   THEN /\ log' = log \cup ConversionLog(df.tweet_created)
                                      \cup { "Preprocessing resulted in an empty DataFrame. Exiting." }
                        /\ UNCHANGED << texts, timestamps >>
                   ELSE /\ texts' = List([i \in 1..Len(result.rows) |->
                                               result.rows[i].clean_text])
                        /\ timestamps' =
                               IF result.tweet_created # "absent"
                                  /\ is_datetime64_any_dtype(result.tweet_created)
                               THEN [some |-> TRUE,
                                     dtype |-> result.tweet_created,
                                     len |-> Len(result.rows)]
                               ELSE NoTimestamps
                        /\ log' = log \cup ConversionLog(df.tweet_created)
    /\ UNCHANGED << file, args, nltk_ok, load_error, overall_topic_model,
                    overall_topics, topics_over_time_df, prefix, min_group_size,
                    unique_groups, grouped_models, viz_queue, fit_calls,
                    tot_calls, attempted, failed, snapshot >>
    /\ UNCHANGED unitVars

\* main returning when the overall fit gave no fitted model
OverallFitReturning ==
    /\ pc = "preprocessed"
    /\ \E ext \in { "ok", "raise" } :
           LET r == perform_topic_modeling(texts, ext)
           IN  /\ overall_topic_model' = r.model
               /\ overall_topics' = r.topics
               /\ fit_calls' = Append(fit_calls, FitCall(overall, texts, r))
               /\ IF r.topics.some /\ r.model.fitted
                  THEN /\ pc' = "overall_fitted"
                       /\ log' = log \cup r.log
                  ELSE /\ pc' = "done"
                       /\ log' = log \cup r.log
                                     \cup { "Overall topic modeling failed or produced no topics" }
    /\ UNCHANGED << file, args, nltk_ok, df, load_error, df_processed, texts,
                    timestamps, topics_over_time_df, prefix, min_group_size,
                    unique_groups, grouped_models, viz_queue, tot_calls,
                    attempted, failed, snapshot >>
    /\ UNCHANGED unitVars

\* perform_topic_modeling(texts) for the whole corpus and the test of its result.
OverallFit ==
    /\ pc = "preprocessed"
    /\ \E ext \in { "ok", "raise" } :
           LET r == perform_topic_modeling(texts, ext)
           IN  /\ overall_topic_model' = r.model
               /\ overall_topics' = r.topics
               /\ fit_calls' = Append(fit_calls, FitCall(overall, texts, r))
               /\ IF r.topics.some /\ r.model.fitted
                  THEN /\ pc' = "overall_fitted"
                       /\ log' = log \cup r.log
                  ELSE /\ pc' = "overall_skipped"
                       /\ log' = log \cup r.log
                                     \cup { "Overall topic modeling failed or produced no topics" }
    /\ UNCHANGED << file, args, nltk_ok, df, load_error, df_processed, texts,
                    timestamps, topics_over_time_df, prefix, min_group_size,
                    unique_groups, grouped_models, viz_queue, tot_calls,
                    attempted, failed, snapshot >>
    /\ UNCHANGED unitVars

\* The topics-over-time analysis of a fitted overall model and the call of
\* visualize_all_topics(overall_topic_model, topics_over_time_df, prefix="overall").
OverallTopicsOverTime ==
    /\ pc = "overall_fitted"
    /\ IF timestamps.some
       THEN \E ext \in { "table", "empty", "raise" } :
                LET r == get_topics_over_time(texts, timestamps, overall_topics, ext)
                IN  /\ topics_over_time_df' = r.ret
                    /\ tot_calls' = IF r.ext_tot THEN tot_calls + 1 ELSE tot_calls
                    /\ log' = log \cup r.log
       ELSE /\ topics_over_time_df' = "None"
            /\ UNCHANGED << tot_calls, log >>
    /\ prefix' = overall
    /\ pc' = "viz_bar"
    /\ UNCHANGED << file, args, nltk_ok, df, load_error, df_processed, texts,
                    timestamps, overall_topic_model, overall_topics,
                    min_group_size, unique_groups, grouped_models, viz_queue,
                    fit_calls, attempted, failed, snapshot >>
    /\ UNCHANGED unitVars

\* the call of perform_topic_modeling_per_group with a minimum size one above
\* the filter's threshold
CallPerGroupOwnMinimum ==
    /\ pc \in { "viz_done", "overall_skipped" }
    /\ min_group_size' = args.min_mentions + 1
    /\ unique_groups' = GroupLabels(df_processed.rows)
    /\ grouped_models' = <<>>
    /\ pc' = "group_loop"
    /\ UNCHANGED << file, args, nltk_ok, df, load_error, df_processed, texts,
                    timestamps, overall_topic_model, overall_topics,
                    topics_over_time_df, prefix, viz_queue, fit_calls, tot_calls,
                    attempted, failed, snapshot, log >>
    /\ UNCHANGED unitVars

\* The call perform_topic_modeling_per_group(df_processed, 'clean_text',
\* 'airlines_mentioned', min_group_size=args.min_mentions), up to its loop.
CallPerGroup ==
    /\ pc \in { "viz_done", "overall_skipped" }
    /\ min_group_size' = args.min_mentions
    /\ unique_groups' = GroupLabels(df_processed.rows)
    /\ grouped_models' = <<>>
    /\ pc' = "group_loop"
    /\ UNCHANGED << file, args, nltk_ok, df, load_error, df_processed, texts,
                    timestamps, overall_topic_model, overall_topics,
                    topics_over_time_df, prefix, viz_queue, fit_calls, tot_calls,
                    attempted, failed, snapshot, log >>
    /\ UNCHANGED unitVars

\* `if grouped_topic_models:` and the call of visualize_grouped_topics.
CallVisualizeGrouped ==
    /\ pc = "group_done"
    /\ IF grouped_models # <<>>
       THEN /\ viz_queue' = grouped_models
            /\ pc' = "group_viz"
            /\ log' = log
       ELSE /\ viz_queue' = <<>>
            /\ pc' = "save"
            /\ log' = log \cup { "No groups met the criteria" }
    /\ UNCHANGED << file, args, nltk_ok, df, load_error, df_processed, texts,
                    timestamps, overall_topic_model, overall_topics,
                    topics_over_time_df, prefix, min_group_size, unique_groups,
                    grouped_models, fit_calls, tot_calls, attempted, failed,
                    snapshot >>
    /\ UNCHANGED unitVars

\* visualize_grouped_topics drawing all three charts of one group model
GroupVizStepAllCharts ==
    /\ pc = "group_viz"
    /\ viz_queue # <<>>
    /\ attempted' = attempted \cup
                        { << Head(viz_queue).key, kind >> :
                            kind \in { "barchart", "hierarchy", "heatmap" } }
    /\ viz_queue' = Tail(viz_queue)
    /\ pc' = IF Tail(viz_queue) = <<>> THEN "save" ELSE "group_viz"
    /\ UNCHANGED << file, args, nltk_ok, df, load_error, df_processed, texts,
                    timestamps, overall_topic_model, overall_topics,
                    topics_over_time_df, prefix, min_group_size, unique_groups,
                    grouped_models, fit_calls, tot_calls, failed, snapshot, log >>
    /\ UNCHANGED unitVars

\* One iteration of visualize_grouped_topics: the bar chart of one group model.
GroupVizStep ==
    /\ pc = "group_viz"
    /\ viz_queue # <<>>
    /\ LET item == Head(viz_queue)
       IN  IF item.model.fitted
           THEN /\ Plot(item.key, "barchart")
                /\ log' = log
           ELSE /\ log' = log \cup { "Skipping visualization" }
                /\ UNCHANGED << attempted, failed >>
    /\ viz_queue' = Tail(viz_queue)
    /\ pc' = IF Tail(viz_queue) = <<>> THEN "save" ELSE "group_viz"
    /\ UNCHANGED << file, args, nltk_ok, df, load_error, df_processed, texts,
                    timestamps, overall_topic_model, overall_topics,
                    topics_over_time_df, prefix, min_group_size, unique_groups,
                    grouped_models, fit_calls, tot_calls, snapshot >>
    /\ UNCHANGED unitVars

\* The optional snapshot (df_processed.to_csv) and the end of main.
SaveProcessed ==
    /\ pc = "save"
    /\ IF args.save_processed
       THEN \E ext \in { "ok", "raise" } :
                /\ snapshot' = IF ext = "ok" THEN "written" ELSE "failed"
                /\ log' = IF ext = "ok" THEN log
                          ELSE log \cup { "Failed to save processed data" }
       ELSE UNCHANGED << snapshot, log >>
    /\ pc' = "done"
    /\ UNCHANGED << file, args, nltk_ok, df, load_error, df_processed, texts,
                    timestamps, overall_topic_model, overall_topics,
                    topics_over_time_df, prefix, min_group_size, unique_groups,
                    grouped_models, viz_queue, fit_calls, tot_calls, attempted,
                    failed >>
    /\ UNCHANGED unitVars

\* ------------------------------------------------------------------------
\* The runs of main that are explored
\* ------------------------------------------------------------------------

MaxCount == 5
MaxOther == 1
MaxMinMentions == 5

\* The cells of the text column: a missing cell, a tweet at United, a tweet at
\* American (the alias), a tweet at both United and US Airways.
Cells ==
    << None,
       Some(<< "@","U","n","i","t","e","d"," ","l","a","t","e","!" >>),
       Some(<< "@","A","m","e","r","i","c","a","n","A","i","r"," ","2"," ","b","a","g","s" >>),
       Some(<< "@","u","n","i","t","e","d"," ","@","U","S","A","i","r","w","a","y","s",
               " ","w","w","w",".","x" >>) >>

\* Sheets with and without tweets at two airlines at once.
WideCounts ==
    { c \in [1..4 -> 0..MaxCount] : c[1] <= MaxOther /\ c[4] <= MaxOther }

CellCounts == { c \in WideCounts : c[4] = 0 }

\* The rows of a sheet holding c[k] copies of Cells[k], taken round robin.
RECURSIVE Interleave(_)
Interleave(c) ==
    IF \A k \in 1..4 : c[k] = 0 THEN <<>>
    ELSE (IF c[1] > 0 THEN << Cells[1] >> ELSE <<>>)
         \o (IF c[2] > 0 THEN << Cells[2] >> ELSE <<>>)
         \o (IF c[3] > 0 THEN << Cells[3] >> ELSE <<>>)
         \o (IF c[4] > 0 THEN << Cells[4] >> ELSE <<>>)
         \o Interleave([k \in 1..4 |-> IF c[k] > 0 THEN c[k] - 1 ELSE 0])

TweetCreatedKinds == { "absent", "datetime", "convertible", "unconvertible" }

\* A missing path, a file read_excel cannot parse, a sheet without a text column.
BadFiles ==
    { [exists |-> FALSE, parses |-> FALSE, has_text |-> FALSE,
       rows |-> <<>>, tweet_created |-> "absent"],
      [exists |-> TRUE, parses |-> FALSE, has_text |-> FALSE,
       rows |-> <<>>, tweet_created |-> "absent"],
      [exists |-> TRUE, parses |-> TRUE, has_text |-> FALSE,
       rows |-> <<>>, tweet_created |-> "absent"] }

Sheet(c, k) ==
    [exists |-> TRUE, parses |-> TRUE, has_text |-> TRUE,
     rows |-> Interleave(c), tweet_created |-> k]

Files == BadFiles \cup { Sheet(c, k) : c \in CellCounts, k \in TweetCreatedKinds }

WideFiles == { Sheet(c, "absent") : c \in WideCounts }

Args == [min_mentions : 1..MaxMinMentions, save_processed : BOOLEAN]

\* The variables of a run before main has touched them.
Untouched ==
    /\ df = NoTable
    /\ load_error = "none"
    /\ df_processed = [rows |-> <<>>, tweet_created |-> "absent"]
    /\ texts = <<>>
    /\ timestamps = NoTimestamps
    /\ overall_topic_model = Unfitted
    /\ overall_topics = None
    /\ topics_over_time_df = "None"
    /\ prefix = <<>>
    /\ min_group_size = 0
    /\ unique_groups = <<>>
    /\ grouped_models = <<>>
    /\ viz_queue = <<>>
    /\ fit_calls = <<>>
    /\ tot_calls = 0
    /\ attempted = {}
    /\ failed = 0
    /\ snapshot = "absent"
    /\ log = {}

MainIdle ==
    /\ pc = "idle"
    /\ file = [exists |-> FALSE, parses |-> FALSE, has_text |-> FALSE,
               rows |-> <<>>, tweet_created |-> "absent"]
    /\ args = [min_mentions |-> 1, save_processed |-> FALSE]
    /\ nltk_ok = TRUE
    /\ Untouched

MainInit ==
    /\ pc = "start"
    /\ file \in Files
    /\ args \in Args
    /\ nltk_ok \in BOOLEAN
    /\ Untouched

\* ------------------------------------------------------------------------
\* The mention extractor on one record: df[text].apply(extract_airlines),
\* then df['airlines_mentioned'].apply(merge_usairways_american), and a
\* second application of the canonicalisation.
\* ------------------------------------------------------------------------

MaxFrags == 3

Fragments ==
    { << "U","n","i","t","e","d" >>,
      << "@","A","m","e","r","i","c","a","n","A","i","r" >>,
      << "U","S","A","i","r","w","a","y","s" >>,
      usairways, jetblue, virginamerica, southwestair,
      << "u","s","a","i","r" >>,
      << "w","a","y","s"," " >>,
      << " ","h","i",","," " >> }

RECURSIVE TextsUpTo(_)
TextsUpTo(n) ==
    IF n = 0 THEN { <<>> }
    ELSE LET shorter == TextsUpTo(n - 1)
         IN  shorter \cup { t \o f : t \in shorter, f \in Fragments }

RawTexts == { Some(t) : t \in TextsUpTo(MaxFrags) } \cup { None }

LabelIdle ==
    /\ raw_text = None
    /\ airlines_mentioned = None
    /\ merged_once = None
    /\ stage = "idle"

LabelInit ==
    /\ MainIdle
    /\ CleanIdle
    /\ raw_text \in RawTexts
    /\ airlines_mentioned = None
    /\ merged_once = None
    /\ stage = "input"

Extract ==
    /\ stage = "input"
    /\ airlines_mentioned' = extract_airlines(raw_text)
    /\ stage' = "extracted"
    /\ UNCHANGED << raw_text, merged_once >>
    /\ UNCHANGED << cleanVars, mainVars >>

Merge ==
    /\ stage = "extracted"
    /\ airlines_mentioned' = merge_usairways_american(airlines_mentioned)
    /\ merged_once' = merge_usairways_american(airlines_mentioned)
    /\ stage' = "merged"
    /\ UNCHANGED raw_text
    /\ UNCHANGED << cleanVars, mainVars >>

MergeAgain ==
    /\ stage = "merged"
    /\ airlines_mentioned' = merge_usairways_american(airlines_mentioned)
    /\ stage' = "merged_twice"
    /\ UNCHANGED << raw_text, merged_once >>
    /\ UNCHANGED << cleanVars, mainVars >>

vars == << labelVars, cleanVars, mainVars >>

LabelNext == Extract \/ Merge \/ MergeAgain

SpecLabel == LabelInit /\ [][LabelNext]_vars

\* ------------------------------------------------------------------------
\* A run of main
\* ------------------------------------------------------------------------

Init == MainInit /\ LabelIdle /\ CleanIdle

Next ==
    \/ Load
    \/ Preprocess
    \/ OverallFit
    \/ OverallTopicsOverTime
    \/ PlotTopicBarchart
    \/ PlotTopicHierarchy
    \/ PlotTopicHeatmap
    \/ PlotTopicsOverTime
    \/ CallPerGroup
    \/ GroupStep
    \/ GroupReturn
    \/ CallVisualizeGrouped
    \/ GroupVizStep
    \/ SaveProcessed

Spec == Init /\ [][Next]_vars

\* ------------------------------------------------------------------------
\* A run of main up to the end of preprocessing, on sheets that also hold
\* tweets at two airlines at once
\* ------------------------------------------------------------------------

PreprocessInit ==
    /\ pc = "start"
    /\ file \in WideFiles
    /\ args \in Args
    /\ nltk_ok = TRUE
    /\ Untouched
    /\ LabelIdle
    /\ CleanIdle

PreprocessNext == Load \/ Preprocess

SpecPreprocess == PreprocessInit /\ [][PreprocessNext]_vars

\* ------------------------------------------------------------------------
\* One call of perform_topic_modeling on any list of documents
\* ------------------------------------------------------------------------

MaxDocs == 6

Documents == { << "l", "a", "t", "e" >>, << "b", "a", "g" >> }

DocumentLists == UNION { [1..n -> Documents] : n \in 0..MaxDocs }

FitInit ==
    /\ pc = "fit_call"
    /\ file \in { f \in BadFiles : ~f.exists }
    /\ args = [min_mentions |-> 1, save_processed |-> FALSE]
    /\ nltk_ok = TRUE
    /\ df = NoTable
    /\ load_error = "none"
    /\ df_processed = [rows |-> <<>>, tweet_created |-> "absent"]
    /\ texts \in DocumentLists
    /\ timestamps = NoTimestamps
    /\ overall_topic_model = Unfitted
    /\ overall_topics = None
    /\ topics_over_time_df = "None"
    /\ prefix = <<>>
    /\ min_group_size = 0
    /\ unique_groups = <<>>
    /\ grouped_models = <<>>
    /\ viz_queue = <<>>
    /\ fit_calls = <<>>
    /\ tot_calls = 0
    /\ attempted = {}
    /\ failed = 0
    /\ snapshot = "absent"
    /\ log = {}
    /\ LabelIdle
    /\ CleanIdle

\* model, topics, _ = perform_topic_modeling(texts)
CallPerformTopicModeling ==
    /\ pc = "fit_call"
    /\ \E ext \in { "ok", "raise" } :
           LET r == perform_topic_modeling(texts, ext)
           IN  /\ overall_topic_model' = r.model
               /\ overall_topics' = r.topics
               /\ fit_calls' = Append(fit_calls, FitCall(overall, texts, r))
               /\ log' = log \cup r.log
    /\ pc' = "fit_returned"
    /\ UNCHANGED << file, args, nltk_ok, df, load_error, df_processed, texts,
                    timestamps, topics_over_time_df, prefix, min_group_size,
                    unique_groups, grouped_models, viz_queue, tot_calls,
                    attempted, failed, snapshot >>
    /\ UNCHANGED unitVars

SpecFit == FitInit /\ [][CallPerformTopicModeling]_vars

\* ------------------------------------------------------------------------
\* One call of perform_topic_modeling_per_group on any labelled table and any
\* minimum group size
\* ------------------------------------------------------------------------

\* The tables a caller can pass: labelled and cleaned, not volume-filtered.
GroupTables ==
    { add_cleaned_text(process_airline_mentions(load_data(f).ret.rows)) :
        f \in WideFiles }

GroupInit ==
    /\ pc = "group_loop"
    /\ file \in { f \in BadFiles : ~f.exists }
    /\ args = [min_mentions |-> 1, save_processed |-> FALSE]
    /\ nltk_ok = TRUE
    /\ df = NoTable
    /\ load_error = "none"
    /\ \E rows \in GroupTables :
           /\ df_processed = [rows |-> rows, tweet_created |-> "absent"]
           /\ unique_groups = GroupLabels(rows)
    /\ texts = <<>>
    /\ timestamps = NoTimestamps
    /\ overall_topic_model = Unfitted
    /\ overall_topics = None
    /\ topics_over_time_df = "None"
    /\ prefix = <<>>
    /\ min_group_size \in 1..MaxMinMentions
    /\ grouped_models = <<>>
    /\ viz_queue = <<>>
    /\ fit_calls = <<>>
    /\ tot_calls = 0
    /\ attempted = {}
    /\ failed = 0
    /\ snapshot = "absent"
    /\ log = {}
    /\ LabelIdle
    /\ CleanIdle

GroupNext == GroupStep \/ GroupReturn

SpecGroup == GroupInit /\ [][GroupNext]_vars

\* ------------------------------------------------------------------------
\* One call of clean_text on any value, with the tokenizer and the lemmatizer
\* as external capabilities
\* ------------------------------------------------------------------------

MaxWords == 3

\* the words a tweet is made of
Words ==
    { << "@","U","n","i","t","e","d" >>,
      << "h","e","l","p" >>,
      << "u","s" >>,
      << "b","a","g","s","!" >>,
      << "2" >>,
      << "w","w","w",".","f","l","y",".","c","o" >>,
      << "h","t","t","p",":","/","/","t",".","c","o" >> }

RECURSIVE Sentences(_)
Sentences(n) ==
    IF n = 0 THEN { <<>> }
    ELSE LET shorter == Sentences(n - 1)
         IN  shorter \cup { IF t = <<>> THEN w ELSE t \o Blank \o w :
                               t \in shorter, w \in Words }

\* the arguments of clean_text: a string, or a value that is not one
CleanArguments == { Some(t) : t \in Sentences(MaxWords) } \cup { None }

\* lines 94-100: lower-casing and the four substitutions
Normalized(text) ==
    RemoveDigits(ReplacePunctuation(RemoveUrls(RemoveMentions(Lower(text)))))

\* l with its i-th token cut in two after k characters
SplitToken(l, i, k) ==
    SubSeq(l, 1, i - 1)
        \o << SubSeq(l[i], 1, k), SubSeq(l[i], k + 1, Len(l[i])) >>
        \o SubSeq(l, i + 1, Len(l))

\* What nltk's word_tokenize can return on text of letters and blanks: the
\* blank-separated words, one of them possibly cut in two (the tokenizer
\* splits contractions such as "cannot" and "gimme").
TokenizerOutcomes(s) ==
    LET words == word_tokenize(s)
        cuts == UNION { { << i, k >> : k \in 1..(Len(words[i]) - 1) } :
                          i \in 1..Len(words) }
    IN  { words } \cup { SplitToken(words, c[1], c[2]) : c \in cuts }

\* What WordNetLemmatizer.lemmatize can return for a word: the word itself
\* when WordNet knows no shorter form, or the word with the plural ending
\* detached when WordNet has that form as a noun ("bags" -> "bag",
\* "us" -> "u").
LemmaOutcomes(word) ==
    { word }
    \cup (IF Len(word) > 1 /\ word[Len(word)] = "s"
          THEN { SubSeq(word, 1, Len(word) - 1) }
          ELSE {})

\* every list the lemmatizer can turn a list of tokens into
RECURSIVE LemmatizedLists(_)
LemmatizedLists(l) ==
    IF l = <<>> THEN { <<>> }
    ELSE { << w >> \o rest : w \in LemmaOutcomes(Head(l)),
                              rest \in LemmatizedLists(Tail(l)) }

CleanInit ==
    /\ pc = "idle"
    /\ file = [exists |-> FALSE, parses |-> FALSE, has_text |-> FALSE,
               rows |-> <<>>, tweet_created |-> "absent"]
    /\ args = [min_mentions |-> 1, save_processed |-> FALSE]
    /\ nltk_ok \in BOOLEAN
    /\ Untouched
    /\ LabelIdle
    /\ ct_arg \in CleanArguments
    /\ ct_text = ct_arg
    /\ ct_tokens = <<>>
    /\ ct_return = <<>>
    /\ ct_pc = "called"

\* lines 89-100: the NLTK resources are initialised (stopwords.words raises
\* LookupError when the corpus is missing), a value that is not a string
\* returns "", a string is normalised.
CleanNormalize ==
    /\ ct_pc = "called"
    /\ IF ~nltk_ok
       THEN /\ ct_pc' = "raised"
            /\ UNCHANGED << ct_text, ct_return >>
       ELSE IF ~ct_text.some
       THEN /\ ct_pc' = "returned"
            /\ ct_return' = <<>>
            /\ UNCHANGED ct_text
       ELSE /\ ct_pc' = "normalized"
            /\ ct_text' = Some(Normalized(ct_text.val))
            /\ UNCHANGED ct_return
    /\ UNCHANGED ct_tokens
    /\ UNCHANGED << ct_arg, labelVars, mainVars >>

\* line 102: tokens = word_tokenize(text)
CleanTokenize ==
    /\ ct_pc = "normalized"
    /\ ct_tokens' \in TokenizerOutcomes(ct_text.val)
    /\ ct_pc' = "tokenized"
    /\ UNCHANGED << ct_text, ct_return >>
    /\ UNCHANGED << ct_arg, labelVars, mainVars >>

\* line 104: stopwords and words of one character are dropped
CleanFilter ==
    /\ ct_pc = "tokenized"
    /\ ct_tokens' = SelectSeq(ct_tokens, LAMBDA w : w \notin stop_words /\ Len(w) > 1)
    /\ ct_pc' = "filtered"
    /\ UNCHANGED << ct_text, ct_return >>
    /\ UNCHANGED << ct_arg, labelVars, mainVars >>

\* lines 106-108: every token is lemmatized and the result joined by blanks
CleanLemmatize ==
    /\ ct_pc = "filtered"
    /\ ct_tokens' \in LemmatizedLists(ct_tokens)
    /\ ct_return' = Join(Blank, ct_tokens')
    /\ ct_pc' = "returned"
    /\ UNCHANGED ct_text
    /\ UNCHANGED << ct_arg, labelVars, mainVars >>

CleanNext == CleanNormalize \/ CleanTokenize \/ CleanFilter \/ CleanLemmatize

SpecClean == CleanInit /\ [][CleanNext]_vars

\* ------------------------------------------------------------------------
\* One call of get_topics_over_time on any documents, timestamps and topic
\* assignments
\* ------------------------------------------------------------------------

\* lists of every length up to MaxDocs
SameDocument(n) == [i \in 1..n |-> << "l", "a", "t", "e" >>] \o <<>>

TopicAssignments(n) == [i \in 1..n |-> 0] \o <<>>

\* the timestamps a caller can pass: None, or a sequence of some length that
\* is of a datetime type, all NaT, or of another type
TimestampArguments ==
    { NoTimestamps }
    \cup [some : { TRUE }, dtype : { "datetime", "NaT", "object" }, len : 0..MaxDocs]

TotInit ==
    /\ pc = "tot_call"
    /\ file \in { f \in BadFiles : ~f.exists }
    /\ args = [min_mentions |-> 1, save_processed |-> FALSE]
    /\ nltk_ok = TRUE
    /\ df = NoTable
    /\ load_error = "none"
    /\ df_processed = [rows |-> <<>>, tweet_created |-> "absent"]
    /\ texts \in { SameDocument(n) : n \in 0..MaxDocs }
    /\ timestamps \in TimestampArguments
    /\ overall_topic_model = Fitted
    /\ overall_topics \in { None } \cup { Some(TopicAssignments(n)) : n \in 0..MaxDocs }
    /\ topics_over_time_df = "None"
    /\ prefix = <<>>
    /\ min_group_size = 0
    /\ unique_groups = <<>>
    /\ grouped_models = <<>>
    /\ viz_queue = <<>>
    /\ fit_calls = <<>>
    /\ tot_calls = 0
    /\ attempted = {}
    /\ failed = 0
    /\ snapshot = "absent"
    /\ log = {}
    /\ LabelIdle
    /\ CleanIdle

\* topics_over_time_df = get_topics_over_time(topic_model, texts, timestamps, topics)
CallGetTopicsOverTime ==
    /\ pc = "tot_call"
    /\ \E ext \in { "table", "empty", "raise" } :
           LET r == get_topics_over_time(texts, timestamps, overall_topics, ext)
           IN  /\ topics_over_time_df' = r.ret
               /\ tot_calls' = IF r.ext_tot THEN tot_calls + 1 ELSE tot_calls
               /\ log' = log \cup r.log
    /\ pc' = "tot_returned"
    /\ UNCHANGED << file, args, nltk_ok, df, load_error, df_processed, texts,
                    timestamps, overall_topic_model, overall_topics, prefix,
                    min_group_size, unique_groups, grouped_models, viz_queue,
                    fit_calls, attempted, failed, snapshot >>
    /\ UNCHANGED unitVars

SpecTot == TotInit /\ [][CallGetTopicsOverTime]_vars

\* ------------------------------------------------------------------------
\* Properties of the mention extractor
\* ------------------------------------------------------------------------

\* The identifiers a canonical label may hold, in alphabetical order.
Alphabetical == << jetblue, southwestair, united, usairways, virginamerica >>

SelectBy(S) == SelectSeq(Alphabetical, LAMBDA a : a \in S)

\* Every ', '-joined, duplicate-free, alphabetically sorted, non-empty list of
\* identifiers other than 'americanair'.
CanonicalLabels ==
    { Join(CommaSpace, SelectBy(S)) : S \in (SUBSET ToSet(Alphabetical)) \ { {} } }

CanonicalLabelsWithUsairways ==
    { Join(CommaSpace, SelectBy(S)) :
        S \in { T \in SUBSET ToSet(Alphabetical) : usairways \in T } }

Mentions(airline, text) == IsSubstring(airline, Lower(text.val))

\* C2: after extract_airlines and merge_usairways_american the label is null
\* exactly when no known identifier is a substring of the lowercased text, and
\* otherwise is a ', '-joined list of identifiers without 'americanair', without
\* duplicates and in alphabetical order; a text mentioning both aliases carries
\* 'usairways' as the one entry for the pair.
C2_CanonicalLabel ==
    (stage = "merged" /\ raw_text.some) =>
        /\ ~airlines_mentioned.some <=>
               \A i \in 1..Len(AIRLINES) : ~Mentions(AIRLINES[i], raw_text)
        /\ airlines_mentioned.some => airlines_mentioned.val \in CanonicalLabels
        /\ (Mentions(americanair, raw_text) /\ Mentions(usairways, raw_text)) =>
               /\ airlines_mentioned.some
               /\ airlines_mentioned.val \in CanonicalLabelsWithUsairways

\* C2 witness: a text mentioning both aliases and a third airline has been labelled.
C2_Witness ==
    /\ stage = "merged"
    /\ raw_text.some
    /\ Mentions(americanair, raw_text)
    /\ Mentions(usairways, raw_text)
    /\ Mentions(united, raw_text)
    /\ airlines_mentioned = Some(united \o CommaSpace \o usairways)

\* C3: applying merge_usairways_american a second time to a label produced by
\* extract_airlines (null included) leaves it as the first application left it.
C3_MergeIdempotent ==
    stage = "merged_twice" => airlines_mentioned = merged_once

\* C3 witness: the second application has run on a multi-airline label that the
\* first application rewrote.
C3_Witness ==
    /\ stage = "merged_twice"
    /\ merged_once.some
    /\ merged_once # extract_airlines(raw_text)
    /\ Len(Split(merged_once.val, ",")) >= 2

\* ------------------------------------------------------------------------
\* Properties of the volume filter
\* ------------------------------------------------------------------------

\* preprocess_data has returned to main
PreprocessReturned == df.some /\ pc \in { "preprocessed", "done" }

CountLabel(rows, L) ==
    Cardinality({ i \in 1..Len(rows) : rows[i].airlines_mentioned = L })

LabelsOf(rows) == { rows[i].airlines_mentioned : i \in 1..Len(rows) }

\* the label is non-null and occurs at least N times in the labelled table
MeetsThreshold(L, rows, N) == L.some /\ CountLabel(rows, L) >= N

WithoutCleanText(rows) ==
    List([i \in 1..Len(rows) |->
             [text |-> rows[i].text, airlines_mentioned |-> rows[i].airlines_mentioned]])

\* C1: the filtered table holds, in their order, exactly the records of the
\* labelled table whose label is non-null and occurs at least min_mentions times
\* in it: a label with exactly min_mentions records stays, one with fewer goes,
\* null-labelled records go.
C1_VolumeFilter ==
    PreprocessReturned =>
        WithoutCleanText(df_processed.rows) =
            SelectSeq(df.rows,
                      LAMBDA r : MeetsThreshold(r.airlines_mentioned, df.rows,
                                                args.min_mentions))

\* C1 witness: a label with exactly N records was retained, a label with N - 1
\* records (a two-airline label among the labels) and a null-labelled record
\* were dropped.
C1_Witness ==
    /\ PreprocessReturned
    /\ args.min_mentions >= 2
    /\ None \in LabelsOf(df.rows)
    /\ \E L \in LabelsOf(df.rows) :
           /\ L.some
           /\ CountLabel(df.rows, L) = args.min_mentions
           /\ CountLabel(df_processed.rows, L) = args.min_mentions
    /\ \E L \in LabelsOf(df.rows) :
           /\ L.some
           /\ CountLabel(df.rows, L) = args.min_mentions - 1
           /\ CountLabel(df_processed.rows, L) = 0
    /\ Some(united \o CommaSpace \o usairways) \in LabelsOf(df.rows)
    /\ None \notin LabelsOf(df_processed.rows)

\* ------------------------------------------------------------------------
\* Properties of the loader
\* ------------------------------------------------------------------------

LoadReturned == pc \notin { "start", "idle", "fit_call", "fit_returned", "group_loop", "group_done" }

Loadable == file.exists /\ file.parses /\ file.has_text

LoadErrors == { "File not found", "Error loading data", "'text' column not found" }

\* C4 as stated: a table only for a loadable file, and otherwise a failure with
\* the typed error of its cause.
C4_TypedErrors ==
    LoadReturned =>
        /\ df.some <=> Loadable
        /\ ~file.exists => load_error = "NotFoundError"
        /\ (file.exists /\ ~file.parses) => load_error = "LoadError"
        /\ (file.exists /\ file.parses /\ ~file.has_text) => load_error = "SchemaError"

\* C4 as amended: load_data returns a table exactly when the path exists, the
\* file parses and the table has a text column; otherwise it raises nothing,
\* returns None and logs the one error message of the cause.
C4_LoadOutcome ==
    LoadReturned =>
        /\ df.some <=> Loadable
        /\ load_error = "none"
        /\ ~file.exists => log \cap LoadErrors = { "File not found" }
        /\ (file.exists /\ ~file.parses) => log \cap LoadErrors = { "Error loading data" }
        /\ (file.exists /\ file.parses /\ ~file.has_text) =>
               log \cap LoadErrors = { "'text' column not found" }
        /\ Loadable => log \cap LoadErrors = {}

\* C4 witness: a sheet without a text column was read and no table came back.
C4_Witness ==
    /\ LoadReturned
    /\ file.exists /\ file.parses /\ ~file.has_text
    /\ ~df.some
    /\ "'text' column not found" \in log

\* ------------------------------------------------------------------------
\* Properties of main
\* ------------------------------------------------------------------------

LoadFailed == LoadReturned /\ ~df.some

\* preprocess_data returned an empty table
EmptyCorpus ==
    /\ df.some
    /\ pc \notin { "start", "loaded", "raised" }
    /\ df_processed.rows = <<>>

\* C5: once the load has failed or preprocessing has left an empty corpus, the
\* run has logged the error and returned, nothing was raised, and no fit, no
\* topics-over-time call, no chart and no snapshot has happened or happens.
C5_EarlyReturn ==
    (pc \notin { "idle", "fit_call", "fit_returned", "group_loop", "group_done" }
        /\ (LoadFailed \/ EmptyCorpus)) =>
        /\ pc = "done"
        /\ LoadFailed => "Failed to load data. Exiting." \in log
        /\ EmptyCorpus =>
               "Preprocessing resulted in an empty DataFrame. Exiting." \in log
        /\ fit_calls = <<>>
        /\ tot_calls = 0
        /\ attempted = {}
        /\ grouped_models = <<>>
        /\ snapshot = "absent"

\* C5 witness: a sheet with rows, all of them filtered out, in a run asked to
\* save the snapshot.
C5_Witness ==
    /\ pc = "done"
    /\ EmptyCorpus
    /\ Len(df.rows) >= 2
    /\ args.save_processed

\* ------------------------------------------------------------------------
\* Properties of perform_topic_modeling
\* ------------------------------------------------------------------------

IsSentinel(call) ==
    /\ call.model = Unfitted
    /\ ~call.model.fitted
    /\ call.topics = None
    /\ call.probs = None

\* C6: a call with fewer than 5 documents returns, never reaches the external
\* fit and gives the unfitted model with null topics and null probabilities;
\* so does a call in which the external fit raised.
C6_FitSentinel ==
    /\ pc = "fit_returned" => Len(fit_calls) = 1
    /\ \A i \in 1..Len(fit_calls) :
           /\ Len(fit_calls[i].docs) < MinDocs =>
                  fit_calls[i].ext = "not_called" /\ IsSentinel(fit_calls[i])
           /\ fit_calls[i].ext = "raise" => IsSentinel(fit_calls[i])

\* C6 witness: a call on four documents has returned.
C6_Witness ==
    /\ pc = "fit_returned"
    /\ Len(texts) = MinDocs - 1
    /\ Len(fit_calls) = 1
    /\ fit_calls[1].docs = texts
    /\ IsSentinel(fit_calls[1])

\* ------------------------------------------------------------------------
\* Properties of perform_topic_modeling_per_group
\* ------------------------------------------------------------------------

\* the distinct non-null labels with at least min_group_size records
QualifyingGroups ==
    { L.val : L \in { M \in LabelsOf(df_processed.rows) :
                         M.some /\ CountLabel(df_processed.rows, M) >= min_group_size } }

Keys == { grouped_models[i].key : i \in 1..Len(grouped_models) }

CallsFor(g) == { i \in 1..Len(fit_calls) : fit_calls[i].who = g }

\* the qualifying groups whose fit gave no fitted model: fewer than 5 documents,
\* or the external fit raised
UnfittedGroups ==
    { g \in QualifyingGroups :
        \/ CountLabel(df_processed.rows, Some(g)) < MinDocs
        \/ \E i \in CallsFor(g) : fit_calls[i].ext = "raise" }

\* C7 as stated: the keys of the returned mapping are exactly the qualifying groups.
C7_KeysAreQualifying ==
    pc = "group_done" => Keys = QualifyingGroups

\* C7 as amended: the keys of the returned mapping are exactly the qualifying
\* groups whose fit returned a fitted model; a qualifying group with fewer than
\* 5 documents, or whose external fit raised, has no key.
C7_KeysAreFittedQualifying ==
    pc = "group_done" => Keys = QualifyingGroups \ UnfittedGroups

\* C7 witness: the call returned a mapping with a key, and a qualifying group
\* is missing from it.
C7_Witness ==
    /\ pc = "group_done"
    /\ Keys # {}
    /\ QualifyingGroups \ Keys # {}

\* the index of the k-th record labelled L
KthRecord(rows, L, k) ==
    CHOOSE i \in 1..Len(rows) :
        /\ rows[i].airlines_mentioned = L
        /\ Cardinality({ j \in 1..(i - 1) : rows[j].airlines_mentioned = L }) = k - 1

\* docs are the clean texts of the records labelled g, in table order
IsGroupCorpus(docs, g) ==
    /\ Len(docs) = CountLabel(df_processed.rows, Some(g))
    /\ \A k \in 1..Len(docs) :
           docs[k] = df_processed.rows[KthRecord(df_processed.rows, Some(g), k)].clean_text

GroupsLeft == { unique_groups[i].val : i \in { j \in 1..Len(unique_groups) : unique_groups[j].some } }

\* C8: the single-corpus fit is called only for qualifying groups, at most once
\* each and on the group's own documents; every qualifying group the loop has
\* passed has had its call whatever the earlier calls returned, so that at the
\* return every qualifying group has had exactly one.
C8_OneFitPerQualifyingGroup ==
    pc \in { "group_loop", "group_done" } =>
        /\ \A i \in 1..Len(fit_calls) :
               /\ fit_calls[i].who \in QualifyingGroups
               /\ IsGroupCorpus(fit_calls[i].docs, fit_calls[i].who)
        /\ \A g \in QualifyingGroups :
               Cardinality(CallsFor(g)) = IF g \in GroupsLeft THEN 0 ELSE 1

\* C8 witness: the loop has returned; the first call failed in the external
\* fit, a later group was still fitted, and a group below the minimum was passed
\* over.
C8_Witness ==
    /\ pc = "group_done"
    /\ Len(fit_calls) >= 2
    /\ fit_calls[1].ext = "raise"
    /\ fit_calls[2].model.fitted
    /\ \E L \in LabelsOf(df_processed.rows) : L.some /\ L.val \notin QualifyingGroups

\* ------------------------------------------------------------------------
\* Properties of the report renderer
\* ------------------------------------------------------------------------

StandardCharts == { "barchart", "hierarchy", "heatmap" }

InVisualizeAll == pc \in { "viz_bar", "viz_hier", "viz_heat", "viz_time" }

\* visualize_all_topics was called for the overall model and is not running
VisualizeAllOver == prefix = overall /\ ~InVisualizeAll

\* C9: whatever failed inside the charts of visualize_all_topics, the call
\* returns with the bar chart, the hierarchy and the heatmap all attempted, and
\* the topics-over-time chart attempted when there is a table for it; no
\* failure of a chart is raised to the caller.
C9_ChartsIsolated ==
    /\ VisualizeAllOver =>
           /\ pc # "raised"
           /\ \A kind \in StandardCharts : << overall, kind >> \in attempted
           /\ topics_over_time_df = "table" <=>
                  << overall, "topics_over_time" >> \in attempted
    /\ pc = "viz_hier" => << overall, "barchart" >> \in attempted
    /\ pc = "viz_heat" => << overall, "hierarchy" >> \in attempted
    /\ pc = "viz_time" => << overall, "heatmap" >> \in attempted

\* C9 witness: all four charts failed and all four were attempted.
C9_Witness ==
    /\ pc = "viz_done"
    /\ topics_over_time_df = "table"
    /\ failed = 4
    /\ Cardinality(attempted) = 4

\* the models of the run that are fitted, by the name their charts carry
FittedModels ==
    (IF overall_topic_model.fitted THEN { overall } ELSE {}) \cup Keys

\* C10 as stated: at the end of the run every fitted model, overall or of a
\* group, has had bar chart, hierarchy and heatmap attempted, and only the
\* overall model a topics-over-time chart.
C10_SameChartsForEveryModel ==
    pc = "done" =>
        /\ \A m \in FittedModels : \A kind \in StandardCharts : << m, kind >> \in attempted
        /\ \A a \in attempted : a[2] = "topics_over_time" => a[1] = overall

\* C10 as amended: the overall model, when fitted, has bar chart, hierarchy and
\* heatmap attempted, and the topics-over-time chart when there is a table; a
\* group model has its bar chart attempted and no other chart.
C10_ChartsPerModel ==
    pc = "done" =>
        attempted =
            { << m, "barchart" >> : m \in FittedModels }
            \cup (IF overall_topic_model.fitted
                  THEN { << overall, "hierarchy" >>, << overall, "heatmap" >> }
                  ELSE {})
            \cup (IF overall_topic_model.fitted /\ topics_over_time_df = "table"
                  THEN { << overall, "topics_over_time" >> }
                  ELSE {})

\* C10 witness: a finished run with a fitted overall model and two group models.
C10_Witness ==
    /\ pc = "done"
    /\ overall_topic_model.fitted
    /\ Cardinality(Keys) = 2
    /\ << overall, "heatmap" >> \in attempted

\* ------------------------------------------------------------------------
\* Properties of clean_text
\* ------------------------------------------------------------------------

\* the tokens of a blank-joined string
OutputTokens(out) == IF out = <<>> THEN <<>> ELSE Split(out, " ")

\* the names of the @handles of a text: every match of @\w+, without the "@"
RECURSIVE Handles(_)
Handles(s) ==
    IF s = <<>> THEN {}
    ELSE IF s[1] = "@" /\ WordRun(Tail(s)) > 0
         THEN { SubSeq(s, 2, 1 + WordRun(Tail(s))) }
                  \cup Handles(Drop(s, 1 + WordRun(Tail(s))))
         ELSE Handles(Tail(s))

\* the URLs of a text: every match of http\S+|www\S+
RECURSIVE Urls(_)
Urls(s) ==
    IF s = <<>> THEN {}
    ELSE IF StartsWith(s, http) /\ NonSpaceRun(Drop(s, 4)) > 0
         THEN { SubSeq(s, 1, 4 + NonSpaceRun(Drop(s, 4))) }
                  \cup Urls(Drop(s, 4 + NonSpaceRun(Drop(s, 4))))
    ELSE IF StartsWith(s, www) /\ NonSpaceRun(Drop(s, 3)) > 0
         THEN { SubSeq(s, 1, 3 + NonSpaceRun(Drop(s, 3))) }
                  \cup Urls(Drop(s, 3 + NonSpaceRun(Drop(s, 3))))
    ELSE Urls(Tail(s))

\* the words a handle or a URL of the text would leave if it were kept
HandleAndUrlWords(s) ==
    Handles(Lower(s))
    \cup UNION { ToSet(word_tokenize(RemoveDigits(ReplacePunctuation(u)))) :
                    u \in Urls(Lower(s)) }

PurelyNumeric(token) ==
    token # <<>> /\ \A i \in 1..Len(token) : token[i] \in Digits

\* C11: when clean_text has returned on a string, its output is blank-joined
\* tokens none of which has one character or fewer, is purely numeric, or is a
\* word of a handle or URL of the input, whatever the tokenizer and the
\* lemmatizer did; on a value that is not a string the call returns the empty
\* string and never raises.
C11_CleanTextContract ==
    /\ (ct_pc = "returned" /\ ct_arg.some) =>
           \A i \in 1..Len(OutputTokens(ct_return)) :
               LET token == OutputTokens(ct_return)[i]
               IN  /\ Len(token) > 1
                   /\ ~PurelyNumeric(token)
                   /\ token \notin HandleAndUrlWords(ct_arg.val)
    /\ (ct_pc \notin { "idle", "called" } /\ ~ct_arg.some) =>
           /\ ct_pc = "returned"
           /\ ct_return = <<>>

\* the part of C11 that the code keeps: no token is purely numeric or comes
\* from a handle or a URL, and the tokens are joined by single blanks
CleanOutputWithoutHandlesUrlsDigits ==
    (ct_pc = "returned" /\ ct_arg.some) =>
        \A i \in 1..Len(OutputTokens(ct_return)) :
            LET token == OutputTokens(ct_return)[i]
            IN  /\ Len(token) > 0
                /\ ~PurelyNumeric(token)
                /\ token \notin HandleAndUrlWords(ct_arg.val)

\* a token of one character in the output of clean_text
ShortTokenReturned ==
    /\ ct_pc = "returned"
    /\ ct_arg.some
    /\ \E i \in 1..Len(OutputTokens(ct_return)) : Len(OutputTokens(ct_return)[i]) = 1

\* clean_text raising on a value that is not a string
NonStringRaised == ct_pc = "raised" /\ ~ct_arg.some

\* ------------------------------------------------------------------------
\* Properties of the topics-over-time computation
\* ------------------------------------------------------------------------

\* the input's tweet_created field is missing or cannot be converted
NoValidTimestamps == file.tweet_created \in { "absent", "unconvertible" }

\* C12: in a run of main on an input without a tweet_created field, or with
\* one that cannot be converted to timestamps, the external topics_over_time
\* is never invoked and the temporal table handed to the overall
\* visualisation is null.
C12_TopicsOverTimeOnlyWithValidTimestamps ==
    NoValidTimestamps => (tot_calls = 0 /\ topics_over_time_df = "None")

\* the part of C12 that the code keeps: without a tweet_created field there is
\* no call and no table
NoFieldNoTopicsOverTime ==
    file.tweet_created = "absent" => (tot_calls = 0 /\ topics_over_time_df = "None")

\* the external topics_over_time invoked on a column that failed to convert
TopicsOverTimeOnNaT ==
    /\ file.tweet_created = "unconvertible"
    /\ "Could not convert 'tweet_created' to datetime" \in log
    /\ tot_calls > 0

\* the three sequences are there and not of one length
LengthsDiffer ==
    /\ timestamps.some
    /\ overall_topics.some
    /\ (Len(texts) # timestamps.len \/ Len(texts) # Len(overall_topics.val))

\* C13: the external topics_over_time is invoked only with documents,
\* timestamps and topic assignments of one length; a call of
\* get_topics_over_time whose sequences differ in length, or whose timestamps
\* are missing or not of a datetime type, returns null without invoking the
\* external capability and without raising.
C13_EqualLengthsOrNull ==
    /\ pc \in { "tot_call", "tot_returned" }
    /\ tot_calls > 0 =>
           /\ timestamps.some
           /\ overall_topics.some
           /\ Len(texts) = timestamps.len
           /\ Len(texts) = Len(overall_topics.val)
    /\ (/\ pc = "tot_returned"
        /\ \/ LengthsDiffer
           \/ ~timestamps.some
           \/ ~is_datetime64_any_dtype(timestamps.dtype))
           => (tot_calls = 0 /\ topics_over_time_df = "None")

\* C13 witness: a call with documents, datetime timestamps and assignments of
\* different lengths has returned null with the length error logged.
C13_Witness ==
    /\ pc = "tot_returned"
    /\ texts # <<>>
    /\ LengthsDiffer
    /\ is_datetime64_any_dtype(timestamps.dtype)
    /\ "must have the same length" \in log
    /\ topics_over_time_df = "None"
    /\ tot_calls = 0

\* ------------------------------------------------------------------------
\* Properties of the orchestration in main
\* ------------------------------------------------------------------------

\* the per-group stage of the run has returned
PerGroupStageOver == pc \in { "group_done", "group_viz", "save", "done" }

\* C14: every label of the filtered corpus is non-null and has at least
\* min_mentions records there; the per-group stage, given the same value as
\* its minimum size, skips no group for size, and when it has returned the
\* single-corpus fit has been called once for every label of the filtered
\* corpus.
C14_NoGroupSkippedForSize ==
    /\ \A L \in LabelsOf(df_processed.rows) :
           L.some /\ CountLabel(df_processed.rows, L) >= args.min_mentions
    /\ "Skipping group" \notin log
    /\ PerGroupStageOver =>
           \A L \in LabelsOf(df_processed.rows) : Cardinality(CallsFor(L.val)) = 1

\* C14 witness: a finished run on 3 tweets at united and 3 at americanair with
\* min_mentions = 3: all 6 records retained, the fit called for 'united' and
\* for 'usairways'.
C14_Witness ==
    /\ pc = "done"
    /\ args.min_mentions = 3
    /\ Len(df.rows) = 6
    /\ Len(df_processed.rows) = 6
    /\ CountLabel(df_processed.rows, Some(united)) = 3
    /\ CountLabel(df_processed.rows, Some(usairways)) = 3
    /\ CallsFor(united) # {}
    /\ CallsFor(usairways) # {}

\* The runs of main on sheets with no, 2 or 5 tweets at each of two airlines
\* and with a threshold of 2 or 5.  main is one sequential thread: past
\* preprocessing, while a statement is left it is executed.
RunCounts ==
    { c \in [1..4 -> 0..MinDocs] :
        c[1] <= 1 /\ c[2] \in { 0, 2, MinDocs } /\ c[3] \in { 0, 2, MinDocs } /\ c[4] = 0 }

RunInit ==
    /\ pc = "start"
    /\ file \in BadFiles \cup { Sheet(c, k) : c \in RunCounts, k \in TweetCreatedKinds }
    /\ args \in [min_mentions : { 2, MinDocs }, save_processed : BOOLEAN]
    /\ nltk_ok \in BOOLEAN
    /\ Untouched
    /\ LabelIdle
    /\ CleanIdle

\* the statements of main after preprocessing
AfterPreprocessing ==
    \/ OverallFit
    \/ OverallTopicsOverTime
    \/ PlotTopicBarchart
    \/ PlotTopicHierarchy
    \/ PlotTopicHeatmap
    \/ PlotTopicsOverTime
    \/ CallPerGroup
    \/ GroupStep
    \/ GroupReturn
    \/ CallVisualizeGrouped
    \/ GroupVizStep
    \/ SaveProcessed

SpecRun == RunInit /\ [][Next]_vars /\ WF_vars(AfterPreprocessing)

\* the run got past preprocessing with a non-empty corpus
CorpusNonEmpty == df_processed.rows # <<>>

\* the snapshot was attempted, and written unless to_csv itself failed
SnapshotTaken ==
    /\ snapshot # "absent"
    /\ snapshot = "written" \/ "Failed to save processed data" \in log

\* C15: a run of main that got past preprocessing with a non-empty corpus
\* always reaches its finished state, never raises, and when finished has
\* entered the per-group stage (the single-corpus fit called for every label)
\* and, with --save_processed, taken the snapshot, whatever failed in the
\* overall fit, the topics-over-time computation or the overall charts.
C15_OverallFailureIsolated ==
    /\ (pc = "preprocessed") ~> (pc = "done")
    /\ [](pc = "raised" => ~CorpusNonEmpty)
    /\ []((pc = "done" /\ CorpusNonEmpty) =>
             /\ min_group_size = args.min_mentions
             /\ \A L \in LabelsOf(df_processed.rows) : CallsFor(L.val) # {}
             /\ args.save_processed => SnapshotTaken)

\* C15 witness: a finished run in which the external fit of the overall model
\* raised; a group model was fitted afterwards and the snapshot written.
C15_Witness ==
    /\ pc = "done"
    /\ CorpusNonEmpty
    /\ fit_calls[1].who = overall
    /\ fit_calls[1].ext = "raise"
    /\ "Overall topic modeling failed or produced no topics" \in log
    /\ grouped_models # <<>>
    /\ snapshot = "written"

\* a finished run in which the topics-over-time computation and every chart
\* failed; a group model was fitted afterwards and the snapshot written
OverallChartsFailedRunFinished ==
    /\ pc = "done"
    /\ "Error calculating topics over time" \in log
    /\ \A kind \in StandardCharts : << overall, kind >> \in attempted
    /\ failed = Cardinality(attempted)
    /\ grouped_models # <<>>
    /\ snapshot = "written"

====
